---------------------------- MODULE Spec2Model ----------------------------
(***************************************************************************)
(* Model of the expense-tracker components.                                *)
(*                                                                         *)
(*   ExpenseForm  (src/src/components/ExpenseForm/ExpenseForm.tsx)         *)
(*   ExpenseCard  (src/unnamed/part_000)                                   *)
(*   ExpenseList  (src/unnamed/part_001)                                   *)
(*                                                                         *)
(* Text that the code inspects character by character (description,       *)
(* amount, date) is a sequence of one-character strings, so that trim()   *)
(* and parseFloat() are computed rather than assumed.  Categories are     *)
(* only ever compared for equality or tested for emptiness and are kept   *)
(* as plain strings.  Amounts of expense records are integers in cents.   *)
(* Every handler runs to completion on the committed state and is         *)
(* followed by React's re-render, which is part of the same step.         *)
(***************************************************************************)
EXTENDS Integers, Sequences, FiniteSets, TLC

VARIABLES
    formData,       \* ExpenseForm: useState<ExpenseFormData>
    errors,         \* ExpenseForm: useState<FormErrors>
    today,          \* the wall clock, in days, read by new Date()
    onSubmitCalls,  \* number of invocations of props.onSubmit so far
    formLast,       \* the last ExpenseForm event and what it did
    expenses,       \* ExpenseList: props.expenses
    hasOnDelete,    \* ExpenseList: whether props.onDeleteExpense is supplied
    filterCategory, \* ExpenseList: useState<FilterOption>
    rendered,       \* ExpenseList: what the last render produced
    onDeleteCalls,  \* number of invocations of props.onDeleteExpense so far
    nextId,         \* the parent's id counter for new records
    listLast        \* the last ExpenseList / ExpenseCard event

formVars == <<formData, errors, today, onSubmitCalls, formLast>>
listVars == <<expenses, hasOnDelete, filterCategory, rendered,
              onDeleteCalls, nextId, listLast>>
vars == <<formData, errors, today, onSubmitCalls, formLast,
          expenses, hasOnDelete, filterCategory, rendered,
          onDeleteCalls, nextId, listLast>>

-----------------------------------------------------------------------------
(* Bounds *)

MaxDay == 1
MaxSubmits == 2
MaxExpenses == 3
MaxId == 3
MaxDeleteCalls == 1

-----------------------------------------------------------------------------
(* JavaScript values *)

Undefined == "undefined"

EmptyObj == [k \in {} |-> Undefined]

\* obj[k] for a key that may be absent
Get(obj, k) == IF k \in DOMAIN obj THEN obj[k] ELSE Undefined

\* { ...obj, [k]: v }
Put(obj, k, v) == [x \in (DOMAIN obj) \cup {k} |-> IF x = k THEN v ELSE obj[x]]

\* truthiness of an optional message
Truthy(v) == v # Undefined /\ v # ""

WhiteSpace == {" ", "\t"}
Digits == {"0", "1", "2", "3", "4", "5", "6", "7", "8", "9"}

DigitVal(c) ==
    CASE c = "0" -> 0 [] c = "1" -> 1 [] c = "2" -> 2 [] c = "3" -> 3
      [] c = "4" -> 4 [] c = "5" -> 5 [] c = "6" -> 6 [] c = "7" -> 7
      [] c = "8" -> 8 [] c = "9" -> 9

DigitChar(n) ==
    CASE n = 0 -> "0" [] n = 1 -> "1" [] n = 2 -> "2" [] n = 3 -> "3"
      [] n = 4 -> "4" [] n = 5 -> "5" [] n = 6 -> "6" [] n = 7 -> "7"
      [] n = 8 -> "8" [] n = 9 -> "9"

RECURSIVE TrimStart(_)
TrimStart(s) ==
    IF s # <<>> /\ Head(s) \in WhiteSpace THEN TrimStart(Tail(s)) ELSE s

RECURSIVE TrimEnd(_)
TrimEnd(s) ==
    IF s # <<>> /\ s[Len(s)] \in WhiteSpace
    THEN TrimEnd(SubSeq(s, 1, Len(s) - 1))
    ELSE s

\* String.prototype.trim
Trim(s) == TrimEnd(TrimStart(s))

\* the number of leading decimal digits of s
RECURSIVE DigitRun(_)
DigitRun(s) ==
    IF s # <<>> /\ Head(s) \in Digits THEN 1 + DigitRun(Tail(s)) ELSE 0

\* the value of a sequence of decimal digits
RECURSIVE DigitsVal(_)
DigitsVal(s) ==
    IF s = <<>> THEN 0
    ELSE 10 * DigitsVal(SubSeq(s, 1, Len(s) - 1)) + DigitVal(s[Len(s)])

RECURSIVE Pow10(_)
Pow10(n) == IF n <= 0 THEN 1 ELSE 10 * Pow10(n - 1)

Drop(s, n) == SubSeq(s, n + 1, Len(s))

StartsWith(s, p) == Len(s) >= Len(p) /\ SubSeq(s, 1, Len(p)) = p

\* A JavaScript number: NaN, +-Infinity, or the decimal num / 10^scale
\* (num has no trailing zero digit unless scale = 0).
NaN == [kind |-> "NaN", num |-> 0, scale |-> 0]
Infinity(neg) == [kind |-> "Infinity", num |-> IF neg THEN -1 ELSE 1, scale |-> 0]

RECURSIVE Num(_, _)
Num(n, sc) ==
    IF sc > 0 /\ n % 10 = 0 THEN Num(n \div 10, sc - 1)
    ELSE IF sc < 0 THEN Num(n * 10, sc + 1)
    ELSE [kind |-> "num", num |-> n, scale |-> sc]

InfinityText == <<"I", "n", "f", "i", "n", "i", "t", "y">>

Negate(v) == [v EXCEPT !.num = -v.num]

\* the number of decimal digits of a positive integer
RECURSIVE NumDigits(_)
NumDigits(n) == IF n < 10 THEN 1 ELSE 1 + NumDigits(n \div 10)

\* the decimal exponents beyond which a double is Infinity or 0
MaxExponent10 == 308
MinExponent10 == 0 - 324

\* the double nearest to mant / 10^sc, for mant >= 0: Infinity above the
\* range of doubles, 0 below it (the rounding of the digits in between is
\* not modelled: the values used here have few digits)
Rounded(mant, sc) ==
    IF mant = 0 THEN Num(0, 0)
    ELSE IF NumDigits(mant) - 1 - sc > MaxExponent10 THEN Infinity(FALSE)
    ELSE IF NumDigits(mant) - 1 - sc < MinExponent10 THEN Num(0, 0)
    ELSE Num(mant, sc)

\* ExponentPart: s follows the mantissa; the exponent it denotes, 0 when s
\* does not start with e/E, an optional sign and at least one digit
ExponentOf(s) ==
    IF s # <<>> /\ Head(s) \in {"e", "E"}
    THEN IF Tail(s) # <<>> /\ Head(Tail(s)) = "-"
         THEN -DigitsVal(SubSeq(s, 3, 2 + DigitRun(Drop(s, 2))))
         ELSE IF Tail(s) # <<>> /\ Head(Tail(s)) = "+"
         THEN DigitsVal(SubSeq(s, 3, 2 + DigitRun(Drop(s, 2))))
         ELSE DigitsVal(SubSeq(s, 2, 1 + DigitRun(Tail(s))))
    ELSE 0

\* digits [. digits] [exponent] with nInt integer and nFrac fraction digits;
\* len is the length of the mantissa text
DecimalOf(s, nInt, nFrac, len) ==
    IF nInt + nFrac = 0 THEN NaN
    ELSE Rounded(DigitsVal(SubSeq(s, 1, nInt)) * Pow10(nFrac)
                   + DigitsVal(SubSeq(s, nInt + 2, nInt + 1 + nFrac)),
                 nFrac - ExponentOf(Drop(s, len)))

\* StrUnsignedDecimalLiteral at the start of s
UnsignedOf(s, nInt) ==
    IF StartsWith(s, InfinityText) THEN Infinity(FALSE)
    ELSE IF Len(s) > nInt /\ s[nInt + 1] = "."
    THEN DecimalOf(s, nInt, DigitRun(Drop(s, nInt + 1)),
                   nInt + 1 + DigitRun(Drop(s, nInt + 1)))
    ELSE DecimalOf(s, nInt, 0, nInt)

SignedOf(s) ==
    IF s # <<>> /\ Head(s) = "-"
    THEN Negate(UnsignedOf(Tail(s), DigitRun(Tail(s))))
    ELSE IF s # <<>> /\ Head(s) = "+"
    THEN UnsignedOf(Tail(s), DigitRun(Tail(s)))
    ELSE UnsignedOf(s, DigitRun(s))

\* parseFloat: skip leading white space, then read the longest prefix that
\* is a StrDecimalLiteral (sign, then Infinity or digits [. digits]
\* [exponent]); NaN when there is none.  Trailing text is ignored.
parseFloat(str) == SignedOf(TrimStart(str))

isNaN(v) == v.kind = "NaN"

\* v <= 0 on JavaScript numbers (false for NaN)
LeqZero(v) == v.kind # "NaN" /\ v.num <= 0

\* new Date().toISOString().split('T')[0] on day `d` of the clock
ISODate(d) ==
    LET day == 15 + d
    IN  <<"2", "0", "2", "4", "-", "0", "1", "-",
          DigitChar(day \div 10), DigitChar(day % 10)>>

-----------------------------------------------------------------------------
(* ExpenseForm *)

Fields == {"description", "amount", "category", "date"}

ExpenseCategory == {"Food", "Transportation", "Entertainment", "Other"}

DescriptionRequired == "Description is required"
AmountPositive == "Amount must be a positive number"
CategoryRequired == "Category is required"
DateRequired == "Date is required"

\* The values a change event can carry (e.target.value): any text for the
\* description; the empty string or a floating-point literal for the
\* number input; an option of the select, or "" when none is selected; the
\* empty string or a date for the date input.
DescriptionInputs ==
    { <<>>, <<" ", " ">>, <<"C">>, <<" ", "C", " ">> }

AmountInputs ==
    { <<>>, <<"-", "3">>, <<"0">>, <<"4", ".", "5", "0">>,
      <<"1", "e", "2">>, <<"1", "e", "9", "9", "9">> }

CategoryInputs == ExpenseCategory \cup {""}

DateInputs == {<<>>} \cup {ISODate(d) : d \in 0..MaxDay}

InputsOf(name) ==
    CASE name = "description" -> DescriptionInputs
      [] name = "amount" -> AmountInputs
      [] name = "category" -> CategoryInputs
      [] name = "date" -> DateInputs

\* the useState initialiser and the reset after a successful submit
DefaultFormData(d) ==
    [description |-> <<>>, amount |-> <<>>, category |-> "Food",
     date |-> ISODate(d)]

validateExpenseForm(data) ==
    LET e0 == EmptyObj
        e1 == IF Trim(data.description) = <<>>
              THEN Put(e0, "description", DescriptionRequired) ELSE e0
        amount == parseFloat(data.amount)
        e2 == IF isNaN(amount) \/ LeqZero(amount)
              THEN Put(e1, "amount", AmountPositive) ELSE e1
        e3 == IF data.category = ""
              THEN Put(e2, "category", CategoryRequired) ELSE e2
        e4 == IF data.date = <<>>
              THEN Put(e3, "date", DateRequired) ELSE e3
    IN  [isValid |-> DOMAIN e4 = {}, errors |-> e4]

\* SubmitPayload with the description passed through untrimmed
SubmitPayload_NoTrim(data) ==
    [description |-> data.description,
     amount |-> parseFloat(data.amount),
     category |-> data.category,
     date |-> data.date]

\* the argument handleSubmit passes to onSubmit
SubmitPayload(data) ==
    [description |-> Trim(data.description),
     amount |-> parseFloat(data.amount),
     category |-> data.category,
     date |-> data.date]

\* handleInputChange replacing the whole errors object on an edit
handleInputChange_ClearsAll(name, value) ==
    /\ formData' = [formData EXCEPT ![name] = value]
    /\ errors' = IF Truthy(Get(errors, name))
                 THEN [k \in {name} |-> Undefined]
                 ELSE errors
    /\ formLast' = [op |-> "change", name |-> name]
    /\ UNCHANGED <<today, onSubmitCalls>>
    /\ UNCHANGED listVars

\* handleInputChange without its second step
handleInputChange_KeepsError(name, value) ==
    /\ formData' = [formData EXCEPT ![name] = value]
    /\ errors' = errors
    /\ formLast' = [op |-> "change", name |-> name]
    /\ UNCHANGED <<today, onSubmitCalls>>
    /\ UNCHANGED listVars

handleInputChange(name, value) ==
    /\ formData' = [formData EXCEPT ![name] = value]
    /\ errors' = IF Truthy(Get(errors, name))
                 THEN Put(errors, name, Undefined)
                 ELSE errors
    /\ formLast' = [op |-> "change", name |-> name]
    /\ UNCHANGED <<today, onSubmitCalls>>
    /\ UNCHANGED listVars

handleSubmit ==
    LET validation == validateExpenseForm(formData)
    IN  /\ onSubmitCalls < MaxSubmits
        /\ IF ~validation.isValid
           THEN /\ errors' = validation.errors
                /\ formLast' = [op |-> "submit", isValid |-> FALSE,
                                draft |-> formData]
                /\ UNCHANGED <<formData, onSubmitCalls>>
           ELSE /\ errors' = EmptyObj
                /\ onSubmitCalls' = onSubmitCalls + 1
                /\ formLast' = [op |-> "submit", isValid |-> TRUE,
                                draft |-> formData,
                                payload |-> SubmitPayload(formData)]
                /\ formData' = DefaultFormData(today)
        /\ UNCHANGED today
        /\ UNCHANGED listVars

\* the clock passes midnight
Tick ==
    /\ today < MaxDay
    /\ today' = today + 1
    /\ UNCHANGED <<formData, errors, onSubmitCalls, formLast>>
    /\ UNCHANGED listVars

FormInit ==
    /\ today = 0
    /\ formData = DefaultFormData(0)
    /\ errors = EmptyObj
    /\ onSubmitCalls = 0
    /\ formLast = [op |-> "mount"]


FormNext ==
    \/ \E name \in Fields : \E value \in InputsOf(name) :
          handleInputChange(name, value)
    \/ handleSubmit
    \/ Tick

-----------------------------------------------------------------------------
(* ExpenseList and ExpenseCard *)

FilterOption == {"All"} \cup ExpenseCategory

\* the records the parent creates
RecordCategories == {"Food", "Other"}
RecordAmounts == {450, 7525}

HighlightThreshold == 5000

Expense(id, category, amount) ==
    [id |-> id, description |-> <<"C">>, amount |-> amount,
     category |-> category, date |-> ISODate(0)]

\* filter that stops at the first record of another category
RECURSIVE Filter_StopsAtMiss(_, _)
Filter_StopsAtMiss(exps, cat) ==
    IF exps = <<>> THEN <<>>
    ELSE IF Head(exps).category = cat
         THEN <<Head(exps)>> \o Filter_StopsAtMiss(Tail(exps), cat)
         ELSE <<>>

\* expenses.filter(expense => expense.category === cat)
RECURSIVE Filter(_, _)
Filter(exps, cat) ==
    IF exps = <<>> THEN <<>>
    ELSE IF Head(exps).category = cat
         THEN <<Head(exps)>> \o Filter(Tail(exps), cat)
         ELSE Filter(Tail(exps), cat)

FilteredExpenses(exps, filt) ==
    IF filt = "All" THEN exps ELSE Filter(exps, filt)

\* filteredExpenses.reduce((sum, expense) => sum + expense.amount, 0)
RECURSIVE Reduce(_, _)
Reduce(exps, sum) ==
    IF exps = <<>> THEN sum
    ELSE Reduce(Tail(exps), sum + Head(exps).amount)

FilteredTotal(fe) == Reduce(fe, 0)

RECURSIVE IntText(_)
IntText(n) ==
    IF n < 10 THEN <<DigitChar(n)>>
    ELSE IntText(n \div 10) \o <<DigitChar(n % 10)>>

\* Number.prototype.toFixed(2) of an amount held in cents
toFixed2(cents) ==
    IntText(cents \div 100)
        \o <<".", DigitChar((cents % 100) \div 10), DigitChar(cents % 10)>>

\* one <ExpenseCard {...expense} onDelete=... highlighted=... />
ExpenseCard(expense, onDelete) ==
    [key |-> expense.id,
     id |-> expense.id,
     description |-> expense.description,
     amount |-> expense.amount,
     category |-> expense.category,
     date |-> expense.date,
     onDelete |-> onDelete,
     highlighted |-> expense.amount > HighlightThreshold,
     showCategory |-> TRUE,
     deleteButton |-> onDelete]

\* Render with the total taken over the whole collection
Render_TotalOfAll(exps, filt, onDelete) ==
    LET filteredExpenses == FilteredExpenses(exps, filt)
        filteredTotal == FilteredTotal(exps)
    IN  [filteredExpenses |-> filteredExpenses,
         totalText |-> toFixed2(filteredTotal),
         count |-> Len(filteredExpenses),
         placeholder |-> Len(filteredExpenses) = 0,
         cards |-> IF Len(filteredExpenses) = 0 THEN <<>>
                   ELSE [i \in 1..Len(filteredExpenses) |->
                            ExpenseCard(filteredExpenses[i], onDelete)]]

\* Render with the placeholder tied to the collection, not to the view
Render_PlaceholderOnEmptyCollection(exps, filt, onDelete) ==
    LET filteredExpenses == FilteredExpenses(exps, filt)
        filteredTotal == FilteredTotal(filteredExpenses)
    IN  [filteredExpenses |-> filteredExpenses,
         totalText |-> toFixed2(filteredTotal),
         count |-> Len(filteredExpenses),
         placeholder |-> Len(exps) = 0,
         cards |-> IF Len(exps) = 0 THEN <<>>
                   ELSE [i \in 1..Len(filteredExpenses) |->
                            ExpenseCard(filteredExpenses[i], onDelete)]]

\* the body of the ExpenseList function component
Render(exps, filt, onDelete) ==
    LET filteredExpenses == FilteredExpenses(exps, filt)
        filteredTotal == FilteredTotal(filteredExpenses)
    IN  [filteredExpenses |-> filteredExpenses,
         totalText |-> toFixed2(filteredTotal),
         count |-> Len(filteredExpenses),
         placeholder |-> Len(filteredExpenses) = 0,
         cards |-> IF Len(filteredExpenses) = 0 THEN <<>>
                   ELSE [i \in 1..Len(filteredExpenses) |->
                            ExpenseCard(filteredExpenses[i], onDelete)]]

handleCategoryChange(value) ==
    /\ filterCategory' = value
    /\ rendered' = Render(expenses, value, hasOnDelete)
    /\ listLast' = [op |-> "filter"]
    /\ UNCHANGED <<expenses, hasOnDelete, onDeleteCalls, nextId>>
    /\ UNCHANGED formVars

\* handleDelete that also takes the card out of the rendered list
handleDelete_RemovesLocally(i) ==
    LET card == rendered.cards[i]
        kept == Render(SelectSeq(rendered.filteredExpenses,
                                 LAMBDA e : e.id # card.id),
                       "All", hasOnDelete)
    IN  /\ onDeleteCalls' = onDeleteCalls + 1
        /\ listLast' = [op |-> "delete", called |-> TRUE, id |-> card.id]
        /\ rendered' = kept
        /\ UNCHANGED <<expenses, hasOnDelete, filterCategory, nextId>>
        /\ UNCHANGED formVars

\* ExpenseCard.handleDelete of the card at position i of the rendered list
handleDelete(i) ==
    LET card == rendered.cards[i]
    IN  /\ IF card.onDelete
           THEN /\ onDeleteCalls' = onDeleteCalls + 1
                /\ listLast' = [op |-> "delete", called |-> TRUE,
                                id |-> card.id]
           ELSE /\ onDeleteCalls' = onDeleteCalls
                /\ listLast' = [op |-> "delete", called |-> FALSE]
        /\ UNCHANGED <<expenses, hasOnDelete, filterCategory, rendered,
                       nextId>>
        /\ UNCHANGED formVars

\* a click on the delete button of a rendered card
ClickDelete(i) ==
    /\ onDeleteCalls < MaxDeleteCalls
    /\ rendered.cards[i].deleteButton
    /\ handleDelete(i)

\* the parent adds a record and renders the list with the new collection
ParentAdd ==
    /\ Len(expenses) < MaxExpenses
    /\ nextId <= MaxId
    /\ \E category \in RecordCategories, amount \in RecordAmounts,
          front \in BOOLEAN :
          LET e == Expense(nextId, category, amount)
          IN  /\ expenses' = IF front THEN <<e>> \o expenses
                             ELSE Append(expenses, e)
              /\ rendered' = Render(expenses', filterCategory, hasOnDelete)
    /\ nextId' = nextId + 1
    /\ listLast' = [op |-> "props"]
    /\ UNCHANGED <<hasOnDelete, filterCategory, onDeleteCalls>>
    /\ UNCHANGED formVars

\* expenses.filter(e => e.id !== id) in the parent
RECURSIVE Without(_, _)
Without(exps, id) ==
    IF exps = <<>> THEN <<>>
    ELSE IF Head(exps).id = id THEN Without(Tail(exps), id)
         ELSE <<Head(exps)>> \o Without(Tail(exps), id)

\* the parent removes a record and renders the list with the new collection
ParentDelete ==
    /\ \E i \in 1..Len(expenses) :
          /\ expenses' = Without(expenses, expenses[i].id)
          /\ rendered' = Render(expenses', filterCategory, hasOnDelete)
    /\ listLast' = [op |-> "props"]
    /\ UNCHANGED <<hasOnDelete, filterCategory, onDeleteCalls, nextId>>
    /\ UNCHANGED formVars

\* the parent starts or stops supplying onDeleteExpense
ParentSetOnDelete ==
    /\ hasOnDelete' = ~hasOnDelete
    /\ rendered' = Render(expenses, filterCategory, hasOnDelete')
    /\ listLast' = [op |-> "props"]
    /\ UNCHANGED <<expenses, filterCategory, onDeleteCalls, nextId>>
    /\ UNCHANGED formVars

ListInit ==
    /\ expenses = <<>>
    /\ hasOnDelete = FALSE
    /\ filterCategory = "All"
    /\ rendered = Render(<<>>, "All", FALSE)
    /\ onDeleteCalls = 0
    /\ nextId = 1
    /\ listLast = [op |-> "mount"]

ListNext ==
    \/ \E value \in FilterOption : handleCategoryChange(value)
    \/ \E i \in 1..Len(rendered.cards) : ClickDelete(i)
    \/ ParentAdd
    \/ ParentDelete
    \/ ParentSetOnDelete

-----------------------------------------------------------------------------
(* Specifications: each component on its own, the other left mounted *)

Init == FormInit /\ ListInit

FormSpec == Init /\ [][FormNext]_vars

ListSpec == Init /\ [][ListNext]_vars

-----------------------------------------------------------------------------
(* The validation rules as the specification words them *)

NonBlank(text) == \E i \in 1..Len(text) : text[i] \notin WhiteSpace

PositiveFinite(v) == v.kind = "num" /\ v.num > 0

FieldValid(f, draft) ==
    CASE f = "description" -> NonBlank(draft.description)
      [] f = "amount" -> PositiveFinite(parseFloat(draft.amount))
      [] f = "category" -> draft.category \in ExpenseCategory
      [] f = "date" -> Len(draft.date) > 0

AllFieldsValid(draft) == \A f \in Fields : FieldValid(f, draft)

\* text without its leading and trailing white space, by positions
Trimmed(text) ==
    LET solid == {i \in 1..Len(text) : text[i] \notin WhiteSpace}
    IN  IF solid = {} THEN <<>>
        ELSE SubSeq(text,
                    CHOOSE i \in solid : \A j \in solid : i <= j,
                    CHOOSE i \in solid : \A j \in solid : j <= i)

HasMessage(errs, f) == f \in DOMAIN errs /\ errs[f] # Undefined

-----------------------------------------------------------------------------
(* ExpenseForm claims *)

\* C1: whenever handleSubmit has validated a draft, the isValid it got is
\* true exactly when the description is non-blank, the amount parses to a
\* finite number above zero, the category is one of the four fixed values
\* and the date is non-empty.
C1_IsValidIffAllFieldsValid ==
    formLast.op = "submit" =>
        (formLast.isValid <=> AllFieldsValid(formLast.draft))

\* C2: a submit of a draft whose four fields are all valid calls onSubmit
\* exactly once, with exactly {description, amount, category, date}, the
\* description trimmed, the amount parsed, category and date as they are;
\* afterwards no error is stored and the draft is the default draft with
\* the current date.
C2_ValidSubmitCallsOnSubmitOnceAndResets ==
    [][ (handleSubmit /\ AllFieldsValid(formData)) =>
          /\ onSubmitCalls' = onSubmitCalls + 1
          /\ formLast'.op = "submit"
          /\ formLast'.isValid
          /\ DOMAIN formLast'.payload = Fields
          /\ formLast'.payload.description = Trimmed(formData.description)
          /\ formLast'.payload.amount = parseFloat(formData.amount)
          /\ PositiveFinite(formLast'.payload.amount)
          /\ formLast'.payload.category = formData.category
          /\ formLast'.payload.date = formData.date
          /\ DOMAIN errors' = {}
          /\ formData' = [description |-> <<>>, amount |-> <<>>,
                          category |-> "Food", date |-> ISODate(today)]
      ]_vars

\* C2 witness: " C " / "4.50" / Food / a date was submitted and went out as
\* "C" / 4.5 / Food / that date, after which the form is empty again.
C2_Witness ==
    /\ formLast.op = "submit"
    /\ formLast.isValid
    /\ formLast.draft.description = <<" ", "C", " ">>
    /\ formLast.draft.amount = <<"4", ".", "5", "0">>
    /\ formLast.payload = [description |-> <<"C">>,
                           amount |-> [kind |-> "num", num |-> 45, scale |-> 1],
                           category |-> "Food",
                           date |-> formLast.draft.date]
    /\ onSubmitCalls = 1
    /\ DOMAIN errors = {}
    /\ formData = DefaultFormData(today)

\* C3: a submit of a draft with an invalid field never calls onSubmit and
\* leaves a message stored for exactly the invalid fields.
C3_InvalidSubmitStoresAllErrors ==
    [][ (handleSubmit /\ ~AllFieldsValid(formData)) =>
          /\ onSubmitCalls' = onSubmitCalls
          /\ \A f \in Fields :
                HasMessage(errors', f) <=> ~FieldValid(f, formData)
      ]_vars

\* C4: an edit of field f leaves no stored error for f and leaves the
\* stored error of every other field as it was; the passing of time leaves
\* all of them, so only a submit touches the error of an unedited field.
C4_EditClearsOnlyOwnError ==
    [][ /\ \A name \in Fields : \A value \in InputsOf(name) :
              handleInputChange(name, value) =>
                  /\ ~HasMessage(errors', name)
                  /\ \A g \in Fields \ {name} :
                        /\ Get(errors', g) = Get(errors, g)
                        /\ HasMessage(errors', g) <=> HasMessage(errors, g)
        /\ Tick => errors' = errors
      ]_vars

\* C4 witness: after a failed submit the amount was edited; its error is
\* gone while the errors of description and date are still stored.
C4_Witness ==
    /\ formLast.op = "change"
    /\ formLast.name = "amount"
    /\ "amount" \in DOMAIN errors
    /\ errors["amount"] = Undefined
    /\ HasMessage(errors, "description")
    /\ errors["description"] = DescriptionRequired
    /\ HasMessage(errors, "date")

\* C9: a field with a stored error message currently holds an invalid
\* value, both by the rules above and by validateExpenseForm itself.
C9_StoredErrorImpliesInvalid ==
    \A f \in Fields :
        HasMessage(errors, f) =>
            /\ ~FieldValid(f, formData)
            /\ f \in DOMAIN validateExpenseForm(formData).errors

\* C9 witness: after edits, the date still carries its error and is still
\* empty, while the description is blank and carries none.
C9_Witness ==
    /\ formLast.op = "change"
    /\ HasMessage(errors, "date")
    /\ formData.date = <<>>
    /\ ~FieldValid("description", formData)
    /\ ~HasMessage(errors, "description")
    /\ FieldValid("amount", formData)
    /\ "amount" \in DOMAIN errors

\* C10: a submit of a draft with an invalid field leaves the draft as it
\* was.
C10_InvalidSubmitKeepsDraft ==
    [][ (handleSubmit /\ ~AllFieldsValid(formData)) => formData' = formData
      ]_vars

-----------------------------------------------------------------------------
(* ExpenseList and ExpenseCard claims *)

\* the positions of the collection that the filter lets through
Matching(exps, filt) ==
    {i \in 1..Len(exps) : filt = "All" \/ exps[i].category = filt}

\* the k-th smallest member of a set of positions
Nth(idx, k) == CHOOSE i \in idx : Cardinality({j \in idx : j <= i}) = k

\* the subsequence of the collection at the matching positions
ViewOf(exps, filt) ==
    [k \in 1..Cardinality(Matching(exps, filt)) |->
        exps[Nth(Matching(exps, filt), k)]]

RECURSIVE SumAt(_, _)
SumAt(exps, idx) ==
    IF idx = {} THEN 0
    ELSE LET i == CHOOSE j \in idx : TRUE
         IN  exps[i].amount + SumAt(exps, idx \ {i})

\* C5: the filtered view is the collection itself under All and otherwise
\* the subsequence, in input order, of the records of the chosen category.
C5_ViewIsMatchingSubsequence ==
    /\ filterCategory = "All" => rendered.filteredExpenses = expenses
    /\ filterCategory # "All" =>
          /\ rendered.filteredExpenses = ViewOf(expenses, filterCategory)
          /\ \A k \in 1..Len(rendered.filteredExpenses) :
                rendered.filteredExpenses[k].category = filterCategory
          /\ Len(rendered.filteredExpenses) =
                Cardinality({i \in 1..Len(expenses) :
                                expenses[i].category = filterCategory})

\* C5 witness: a Food filter over Food, Other, Food shows the two Food
\* records in their order.
C5_Witness ==
    /\ filterCategory = "Food"
    /\ Len(expenses) = 3
    /\ expenses[1].category = "Food"
    /\ expenses[2].category = "Other"
    /\ expenses[3].category = "Food"
    /\ rendered.filteredExpenses = <<expenses[1], expenses[3]>>

\* C6: the total shown is the sum of the amounts of the records of the
\* current collection that pass the current filter, and the view shown
\* holds exactly those records.
C6_TotalIsSumOfCurrentView ==
    /\ rendered.totalText =
          toFixed2(SumAt(expenses, Matching(expenses, filterCategory)))
    /\ rendered.count = Cardinality(Matching(expenses, filterCategory))
    /\ {rendered.filteredExpenses[k] : k \in 1..Len(rendered.filteredExpenses)}
          = {expenses[i] : i \in Matching(expenses, filterCategory)}

\* C6 witness: under an Other filter the parent has added three records
\* and removed one; of the two left, 75.25 passes the filter and 4.50 does
\* not, and 75.25 is shown.
C6_Witness ==
    /\ listLast.op = "props"
    /\ filterCategory = "Other"
    /\ nextId = 4
    /\ Len(expenses) = 2
    /\ expenses[1].category = "Food"
    /\ expenses[1].amount = 450
    /\ expenses[2].category = "Other"
    /\ Len(rendered.filteredExpenses) = 1
    /\ rendered.totalText = <<"7", "5", ".", "2", "5">>

\* C7: a click on the delete button of a rendered card calls the supplied
\* callback once, with the id of the record of that card, and leaves the
\* collection, the filter and the rendered list as they were; while no
\* callback is supplied no card has a delete button and nothing is called.
C7_DeleteClickOnlyCallsBack ==
    [][ /\ \A i \in 1..Len(rendered.cards) :
              ClickDelete(i) =>
                  /\ hasOnDelete
                  /\ onDeleteCalls' = onDeleteCalls + 1
                  /\ listLast' = [op |-> "delete", called |-> TRUE,
                                  id |-> rendered.filteredExpenses[i].id]
                  /\ expenses' = expenses
                  /\ filterCategory' = filterCategory
                  /\ rendered' = rendered
                  /\ \E k \in 1..Len(rendered'.filteredExpenses) :
                        rendered'.filteredExpenses[k].id = listLast'.id
        /\ ~hasOnDelete =>
              /\ onDeleteCalls' = onDeleteCalls
              /\ \A i \in 1..Len(rendered.cards) :
                    ~rendered.cards[i].deleteButton
        /\ onDeleteCalls' \in {onDeleteCalls, onDeleteCalls + 1}
      ]_vars

\* C7 witness: the second of two cards was clicked; the callback got its
\* id once and the record is still in the collection and in the view.
C7_Witness ==
    /\ listLast.op = "delete"
    /\ listLast.called
    /\ onDeleteCalls = 1
    /\ Len(rendered.cards) = 2
    /\ listLast.id = rendered.cards[2].id
    /\ \E i \in 1..Len(expenses) : expenses[i].id = listLast.id

\* C8: the placeholder is rendered exactly when no record of the current
\* collection passes the current filter; otherwise there is one card per
\* record of the view, in order, and no placeholder.
C8_PlaceholderIffViewEmpty ==
    /\ rendered.placeholder <=> Matching(expenses, filterCategory) = {}
    /\ rendered.placeholder => rendered.cards = <<>>
    /\ ~rendered.placeholder =>
          /\ Len(rendered.cards) = Cardinality(Matching(expenses, filterCategory))
          /\ \A k \in 1..Len(rendered.cards) :
                rendered.cards[k].id =
                    expenses[Nth(Matching(expenses, filterCategory), k)].id

\* C8 witness: the collection is not empty but none of its records is of
\* the chosen category, and the placeholder is shown.
C8_Witness ==
    /\ Len(expenses) = 2
    /\ filterCategory = "Other"
    /\ \A i \in 1..Len(expenses) : expenses[i].category = "Food"
    /\ rendered.placeholder
    /\ rendered.cards = <<>>

=============================================================================
